---- MODULE Spec2Model ----
(***************************************************************************)
(* A model of the Plan of src/core/_npc_components/_plan.py: the concept   *)
(* and inference registries, the dependency compiler (order_inference and  *)
(* its helpers in _utils.py) and the executor (Plan.execute).              *)
(*                                                                         *)
(* Inference objects are modelled with their identity: a record holding   *)
(* the Concepts the object was built with and an id that tells apart the   *)
(* objects built for one registry key.  Identities are renamed after every *)
(* call so that the object the registry holds under a key has id 1: a      *)
(* renaming of identities does not change what the program does.           *)
(*                                                                         *)
(* Scope: a Concept is replaced in concept_registry only while no          *)
(* Inference object holds it, so a Concept object is named by its name;    *)
(* Concepts are created without a reference, as the callers of add_concept *)
(* create them; direct_reference_to_concept is not modelled; the input     *)
(* mode and input_config passed to execute are well formed and the agent   *)
(* passes the isinstance checks.  What the agent's perception, cognition   *)
(* and actuation callbacks do inside Inference.execute is the caller's:    *)
(* each Inference.execute call either raises or returns.                   *)
(***************************************************************************)
EXTENDS Integers, Sequences, FiniteSets, TLC

VARIABLES
    concept_registry,     \* Plan.concept_registry: the names that have an entry
    referenced,           \* the registered Concepts whose .reference is set
    inference_registry,   \* Plan.inference_registry: sequence of [key, inf], insertion order
    inference_order,      \* Plan.inference_order: sequence of Inference objects
    input_concept_names,  \* Plan.input_concept_names: sequence of names
    output_concept_name,  \* Plan.output_concept_name: a name, or None
    last,                 \* outcome of the latest call on the plan
    A,                    \* a Reference (src/core/_npc_components/_reference.py)
    B,                    \* a second Reference, operand of the tensor algebra
    result,               \* outcome of the latest call on the References or the memory
    memory                \* the memory file: sequence of [key, value], insertion order

plan_vars == <<concept_registry, referenced, inference_registry, inference_order,
               input_concept_names, output_concept_name, last>>

reference_vars == <<A, B, result>>

vars == <<concept_registry, referenced, inference_registry, inference_order,
          input_concept_names, output_concept_name, last, A, B, result, memory>>

----------------------------------------------------------------------------
(* Bounds and input domains *)

MaxInferences == 3

Names == {"A", "B", "C", "D", "K"}

None == "None"

\* The (perception names, cognition name, inferred name) the callers of
\* add_inference build inferences from.
Descriptors ==
    { <<<<"A">>, "K", "B">>,
      <<<<"B">>, "K", "C">>,
      <<<<"A", "C">>, "K", "D">>,
      <<<<"C", "A">>, "K", "D">>,
      <<<<"A">>, "C", "B">> }

InputNameChoices == { <<"A", "K">>, <<"D">> }
OutputNameChoices == { "D" }

\* input_data of Plan.execute: None (given = FALSE), or a dict with these keys.
InputDataChoices ==
    { [given |-> FALSE, keys |-> {}],
      [given |-> TRUE, keys |-> {"A", "K", "D"}],
      [given |-> TRUE, keys |-> {"K"}] }

----------------------------------------------------------------------------
(* Helpers *)

Range(s) == { s[i] : i \in 1..Len(s) }

Min(S) == CHOOSE x \in S : \A y \in S : x <= y

Registered(creg, n) == n \in creg

\* Inference.__init__: the object keeps the Concept objects it is given.
Inference(concept_to_infer, perception_concepts, cognition_concept, id) ==
    [concept_to_infer |-> concept_to_infer,
     perception_concepts |-> perception_concepts,
     cognition_concept |-> cognition_concept,
     id |-> id]

\* The registry key of add_inference:
\* str([perception names, cognition name, inferred name]).  The string is
\* modelled by the list it prints; ast.literal_eval reads the list back.
InferenceKey(inf) ==
    << inf.perception_concepts, inf.cognition_concept, inf.concept_to_infer >>

ConceptsOfInference(inf) ==
    Range(inf.perception_concepts) \cup {inf.cognition_concept, inf.concept_to_infer}

Values(ireg) == [i \in 1..Len(ireg) |-> ireg[i].inf]
Keys(ireg) == [i \in 1..Len(ireg) |-> ireg[i].key]

LiveInferences(ireg, iord) == Range(Values(ireg)) \cup Range(iord)

\* the Concept objects the Inference objects of the plan hold
ConceptsInUse(ireg, iord) ==
    UNION { ConceptsOfInference(inf) : inf \in LiveInferences(ireg, iord) }


\* a new Inference object: the smallest identity no live object of the same
\* key uses
FreshId(key, live) ==
    Min({ k \in 1..(Cardinality(live) + 1) :
            \A inf \in live : InferenceKey(inf) = key => inf.id # k })

\* the Inference object the registry holds under the key of inf
RegistryObject(ireg, inf) ==
    LET at == { i \in 1..Len(ireg) : ireg[i].key = InferenceKey(inf) }
    IN ireg[Min(at)].inf

\* identities renamed: 1 for the object the registry holds, 2 for another
\* object of the same key
Renamed(inf, ireg) ==
    [inf EXCEPT !.id = IF inf = RegistryObject(ireg, inf) THEN 1 ELSE 2]

\* The outcome of a call: the error raised ("none" when the call returns),
\* the concept names the error carries, the (inferred, requires) pairs a
\* cyclic-dependency error lists, and the number of inferences of
\* inference_order whose execute the call invoked.
Outcome(op, raised, named, stranded, ran) ==
    [op |-> op, raised |-> raised, named |-> named, stranded |-> stranded, ran |-> ran]

Returned(op) == Outcome(op, "none", {}, {}, 0)

\* the state a call leaves
Commit(creg, refd, ireg, iord, input_names, output_name, outcome) ==
    /\ concept_registry' = creg
    /\ referenced' = refd
    /\ inference_registry' = [i \in 1..Len(ireg) |-> [ireg[i] EXCEPT !.inf.id = 1]]
    /\ inference_order' = [k \in 1..Len(iord) |-> Renamed(iord[k], ireg)]
    /\ input_concept_names' = input_names
    /\ output_concept_name' = output_name
    /\ last' = outcome
    /\ UNCHANGED <<reference_vars, memory>>

----------------------------------------------------------------------------
(* Plan.__init__ *)

NewPlan ==
    /\ concept_registry = {}
    /\ referenced = {}
    /\ inference_registry = <<>>
    /\ inference_order = <<>>
    /\ input_concept_names = <<>>
    /\ output_concept_name = None
    /\ last = Returned("init")

\* the memory file as it is created: open(memory_location, "w").write("{}")
EmptyMemory == memory = <<>>

\* no Reference is in play while the plan is exercised
NoReferences ==
    /\ A = None
    /\ B = None
    /\ result = None

Init ==
    /\ NewPlan
    /\ EmptyMemory
    /\ NoReferences

\* the inferences the latest call executed, in the order it executed them
Ran == SubSeq(inference_order, 1, last.ran)

----------------------------------------------------------------------------
(* Plan.add_concept *)

\* self.concept_registry[name] = concept, for a Concept(name) that has no
\* reference
add_concept(n) ==
    /\ n \notin ConceptsInUse(inference_registry, inference_order)
    /\ Commit(concept_registry \cup {n}, referenced \ {n},
              inference_registry, inference_order,
              input_concept_names, output_concept_name, Returned("add_concept"))

----------------------------------------------------------------------------
(* Plan.add_inference *)

KeyIndex(ireg, key) == { i \in 1..Len(ireg) : ireg[i].key = key }

\* inference_registry[key] = inference: a new key goes last, a key already
\* there keeps its place and gets the new object.
RegistryPut(ireg, key, inf) ==
    IF KeyIndex(ireg, key) = {}
    THEN Append(ireg, [key |-> key, inf |-> inf])
    ELSE [ireg EXCEPT ![Min(KeyIndex(ireg, key))] = [key |-> key, inf |-> inf]]

add_inference(d) ==
    /\ \A n \in Range(d[1]) \cup {d[2], d[3]} : Registered(concept_registry, n)
    /\ LET perception_concepts == d[1]
           cognition_concept == d[2]
           concept_to_infer == d[3]
           proto == Inference(concept_to_infer, perception_concepts, cognition_concept, 0)
           inference_key == InferenceKey(proto)
           inf == [proto EXCEPT !.id =
                     FreshId(inference_key,
                             LiveInferences(inference_registry, inference_order))]
           ireg == RegistryPut(inference_registry, inference_key, inf)
       IN /\ Len(ireg) <= MaxInferences
          /\ Commit(concept_registry, referenced, ireg, inference_order,
                    input_concept_names, output_concept_name, Returned("add_inference"))

----------------------------------------------------------------------------
(* Plan.set_input_output_concepts *)

set_input_output_concepts(input_names, output_name) ==
    LET unregistered == { n \in Range(input_names) \cup {output_name} :
                            ~Registered(concept_registry, n) }
    IN IF unregistered # {}
       THEN Commit(concept_registry, referenced, inference_registry, inference_order,
                   input_concept_names, output_concept_name,
                   Outcome("set_input_output_concepts", "not_registered", unregistered,
                           {}, 0))
       ELSE Commit(concept_registry, referenced, inference_registry, inference_order,
                   input_names, output_name, Returned("set_input_output_concepts"))

----------------------------------------------------------------------------
(* Plan.order_inference and its helpers (_utils.py).  Inside the helpers   *)
(* an Inference object of the registry is named by its position in the     *)
(* registry: the registry holds one object per key.                        *)

\* the members of a set of numbers, ascending
Ascending(S) ==
    [k \in 1..Cardinality(S) |-> CHOOSE x \in S : Cardinality({ y \in S : y < x }) = k - 1]

\* faulty variant: every registered concept counts as initial
get_initial_concepts_all_registered(input_names, creg, refd) ==
    Range(input_names) \cup creg

get_initial_concepts(input_names, creg, refd) ==
    Range(input_names) \cup { n \in creg : n \in refd }

\* faulty variant: the cognition concept is left out of the inputs
InputConcepts_perception_only(ireg, i) == Range(ireg[i].key[1])

\* components = ast.literal_eval(key)
PerceptionNames(ireg, i) == ireg[i].key[1]
ActuationName(ireg, i) == ireg[i].key[2]
InferredName(ireg, i) == ireg[i].key[3]

\* faulty variant: a producer is compared with the one registered just before it
MappingFailures_adjacent(ireg) ==
    { i \in 1..Len(ireg) :
        \/ ireg[i].inf.concept_to_infer # InferredName(ireg, i)
        \/ (i > 1 /\ InferredName(ireg, i - 1) = InferredName(ireg, i)) }

\* the registry positions at which the loop of _build_concept_mappings
\* raises; it raises at the first one
MappingFailures(ireg) ==
    { i \in 1..Len(ireg) :
        \/ ireg[i].inf.concept_to_infer # InferredName(ireg, i)
        \/ \E j \in 1..(i - 1) : InferredName(ireg, j) = InferredName(ireg, i) }

\* input_concepts = set(perception_names) | {actuation_name}
InputConcepts(ireg, i) == Range(PerceptionNames(ireg, i)) \cup {ActuationName(ireg, i)}

build_concept_mappings(ireg) ==
    LET inf_to_components ==
            [i \in 1..Len(ireg) |->
                [input_concepts |-> InputConcepts(ireg, i),
                 inferred_name |-> InferredName(ireg, i)]]
        produced == { InferredName(ireg, i) : i \in 1..Len(ireg) }
        concept_producers ==
            [n \in produced |-> Min({ i \in 1..Len(ireg) : InferredName(ireg, i) = n })]
    IN IF MappingFailures(ireg) = {}
       THEN [raised |-> "none", named |-> {},
             concept_producers |-> concept_producers,
             inf_to_components |-> inf_to_components]
       ELSE LET i == Min(MappingFailures(ireg))
            IN [raised |-> IF ireg[i].inf.concept_to_infer # InferredName(ireg, i)
                           THEN "registry_mismatch" ELSE "multiple_producers",
                named |-> {InferredName(ireg, i)},
                concept_producers |-> concept_producers,
                inf_to_components |-> inf_to_components]

\* the concepts of inference i that are neither initial nor produced
Unresolvable(i, initial_concepts, concept_producers, inf_to_components) ==
    { c \in inf_to_components[i].input_concepts :
        c \notin initial_concepts /\ c \notin DOMAIN concept_producers }

Dependencies(i, initial_concepts, concept_producers, inf_to_components) ==
    { concept_producers[c] : c \in inf_to_components[i].input_concepts \ initial_concepts }

\* raised = "unresolvable": candidates holds the names the error can carry
\* (the loop runs over a Python set of strings, in an order the build decides).
build_dependency_graph(initial_concepts, concept_producers, inf_to_components, ireg) ==
    LET N == Len(ireg)
        bad == { i \in 1..N :
                   Unresolvable(i, initial_concepts, concept_producers, inf_to_components) # {} }
    IN IF bad # {}
       THEN [raised |-> "unresolvable",
             candidates |-> Unresolvable(Min(bad), initial_concepts, concept_producers,
                                         inf_to_components),
             graph |-> <<>>, in_degree |-> <<>>]
       ELSE [raised |-> "none", candidates |-> {},
             graph |-> [p \in 1..N |->
                          Ascending({ i \in 1..N :
                            p \in Dependencies(i, initial_concepts, concept_producers,
                                               inf_to_components) })],
             in_degree |-> [i \in 1..N |->
                          Cardinality(Dependencies(i, initial_concepts, concept_producers,
                                                   inf_to_components))]]

\* faulty variant: the in-degree is tested before it is decremented
RECURSIVE Relax_test_first(_, _, _, _)
Relax_test_first(neighbors, k, in_degree, queue) ==
    IF k > Len(neighbors) THEN [in_degree |-> in_degree, queue |-> queue]
    ELSE LET n == neighbors[k]
             deg == [in_degree EXCEPT ![n] = @ - 1]
         IN Relax_test_first(neighbors, k + 1, deg,
                             IF in_degree[n] = 0 THEN Append(queue, n) ELSE queue)

\* for neighbor in graph[current]: in_degree[neighbor] -= 1; append when it reaches 0
RECURSIVE Relax(_, _, _, _)
Relax(neighbors, k, in_degree, queue) ==
    IF k > Len(neighbors) THEN [in_degree |-> in_degree, queue |-> queue]
    ELSE LET n == neighbors[k]
             deg == [in_degree EXCEPT ![n] = @ - 1]
         IN Relax(neighbors, k + 1, deg, IF deg[n] = 0 THEN Append(queue, n) ELSE queue)

\* faulty variant: queue.pop() instead of queue.popleft()
RECURSIVE Kahn_pop(_, _, _, _)
Kahn_pop(graph, in_degree, queue, ordered) ==
    IF queue = <<>> THEN ordered
    ELSE LET current == queue[Len(queue)]
             r == Relax(graph[current], 1, in_degree, SubSeq(queue, 1, Len(queue) - 1))
         IN Kahn_pop(graph, r.in_degree, r.queue, Append(ordered, current))

\* while queue: current = queue.popleft(); ordered.append(current); ...
RECURSIVE Kahn(_, _, _, _)
Kahn(graph, in_degree, queue, ordered) ==
    IF queue = <<>> THEN ordered
    ELSE LET current == Head(queue)
             r == Relax(graph[current], 1, in_degree, Tail(queue))
         IN Kahn(graph, r.in_degree, r.queue, Append(ordered, current))

\* faulty variant: the registry order is returned as it is
topological_sort_registry_order(graph, in_degree, ireg) ==
    Ascending(1..Len(ireg))

topological_sort(graph, in_degree, ireg) ==
    Kahn(graph, in_degree,
         Ascending({ i \in 1..Len(ireg) : in_degree[i] = 0 }), <<>>)

\* cycle_info of _validate_topological_order: empty when the order is complete
validate_topological_order(ordered, inf_to_components, ireg) ==
    IF Len(ordered) # Len(ireg)
    THEN { [inferred |-> inf_to_components[i].inferred_name,
            requires |-> inf_to_components[i].input_concepts] :
           i \in (1..Len(ireg)) \ Range(ordered) }
    ELSE {}

\* The outcomes order_inference can have: the error it raises, or the order
\* it stores in inference_order.
OrderOutcomes(ireg, input_names, creg, refd) ==
    LET initial_concepts == get_initial_concepts(input_names, creg, refd)
        m == build_concept_mappings(ireg)
        g == build_dependency_graph(initial_concepts, m.concept_producers,
                                    m.inf_to_components, ireg)
        ordered == topological_sort(g.graph, g.in_degree, ireg)
        cycle_info == validate_topological_order(ordered, m.inf_to_components, ireg)
    IN IF m.raised # "none"
       THEN { [raised |-> m.raised, named |-> m.named, stranded |-> {}, ordered |-> <<>>] }
       ELSE IF g.raised # "none"
       THEN { [raised |-> g.raised, named |-> {c}, stranded |-> {}, ordered |-> <<>>] :
              c \in g.candidates }
       ELSE IF Len(ordered) # Len(ireg)
       THEN { [raised |-> "cyclic", named |-> {}, stranded |-> cycle_info, ordered |-> <<>>] }
       ELSE { [raised |-> "none", named |-> {}, stranded |-> {},
               ordered |-> [k \in 1..Len(ordered) |-> ireg[ordered[k]].inf]] }

\* faulty variant: the cached order is dropped when the ordering raises
order_inference_clears ==
    \E r \in OrderOutcomes(inference_registry, input_concept_names, concept_registry,
                           referenced) :
        Commit(concept_registry, referenced, inference_registry,
               IF r.raised = "none" THEN r.ordered ELSE <<>>,
               input_concept_names, output_concept_name,
               Outcome("order_inference", r.raised, r.named, r.stranded, 0))

order_inference ==
    \E r \in OrderOutcomes(inference_registry, input_concept_names, concept_registry,
                           referenced) :
        Commit(concept_registry, referenced, inference_registry,
               IF r.raised = "none" THEN r.ordered ELSE inference_order,
               input_concept_names, output_concept_name,
               Outcome("order_inference", r.raised, r.named, r.stranded, 0))

----------------------------------------------------------------------------
(* Inference.execute and Plan.execute *)

\* for inf in self.inference_order: inf.execute(agent).  Inference.execute
\* hands the Concepts to the agent's perception, cognition and actuation
\* callbacks: a call either raises (the AgentFrame of src/core/_agentframe
\* takes one argument in perception and is called with two) and ends the
\* loop, or returns after concept_to_infer.reference is set.  failed_at is the
\* call that raises, 0 when none does.
RunInferences(order, failed_at, refd) ==
    LET completed == IF failed_at = 0 THEN Len(order) ELSE failed_at - 1
        inferred == { order[k].concept_to_infer : k \in 1..completed }
    IN [raised |-> IF failed_at = 0 THEN "none" ELSE "inference_failed",
        referenced |-> refd \cup inferred,
        ran |-> IF failed_at = 0 THEN Len(order) ELSE failed_at]

UsesInput(inf, input_names) ==
    \/ \E c \in Range(inf.perception_concepts) : c \in Range(input_names)
    \/ inf.cognition_concept \in Range(input_names)

\* "Renew relevant inferences": the entry of an inference that uses an input
\* is to be replaced by Inference(..., view=inference.view).  An Inference
\* object has no attribute view (Inference.__init__ does not store it), so
\* the loop raises AttributeError at the first such entry, before it
\* replaces any.
RenewInferences(ireg, input_names) ==
    IF \E i \in 1..Len(ireg) : UsesInput(ireg[i].inf, input_names)
    THEN [raised |-> "attribute_error", inference_registry |-> ireg]
    ELSE [raised |-> "none", inference_registry |-> ireg]

\* the state Plan.execute leaves and the outcome of the call
Finish(ireg, iord, refd, outcome) ==
    Commit(concept_registry, refd, ireg, iord, input_concept_names, output_concept_name,
           outcome)

\* faulty variant: the output Concept's reference is returned unchecked
ExecuteOrder_unchecked(ireg, iord, refd) ==
    \E failed_at \in 0..Len(iord) :
        LET run == RunInferences(iord, failed_at, refd)
        IN Finish(ireg, iord, run.referenced,
                  Outcome("execute", run.raised, {}, {}, run.ran))

\* from "for inf in self.inference_order" to the return
ExecuteOrder(ireg, iord, refd) ==
    \E failed_at \in 0..Len(iord) :
        LET run == RunInferences(iord, failed_at, refd)
        IN IF run.raised # "none"
           THEN Finish(ireg, iord, run.referenced,
                       Outcome("execute", run.raised, {}, {}, run.ran))
           ELSE IF output_concept_name \notin run.referenced
           THEN Finish(ireg, iord, run.referenced,
                       Outcome("execute", "no_output_reference", {output_concept_name},
                               {}, run.ran))
           ELSE Finish(ireg, iord, run.referenced,
                       Outcome("execute", "none", {}, {}, run.ran))

\* faulty variant: the inputs that have an entry are processed before the
\* missing ones are reported
process_input_data_partial(input_data, input_names, refd) ==
    LET missing_inputs == Range(input_names) \ input_data.keys
    IN IF ~input_data.given
       THEN [raised |-> "none", named |-> {}, referenced |-> refd]
       ELSE IF missing_inputs # {}
       THEN [raised |-> "missing_input_data", named |-> missing_inputs,
             referenced |-> refd \cup (Range(input_names) \cap input_data.keys)]
       ELSE [raised |-> "none", named |-> {}, referenced |-> refd \cup Range(input_names)]

\* _process_input_data: nothing is done for input_data None; a dict that
\* lacks a declared input raises before any input is processed; otherwise
\* the reference of every input Concept is set (from the entry, through
\* agent.actuation).
process_input_data(input_data, input_names, refd) ==
    LET missing_inputs == Range(input_names) \ input_data.keys
    IN IF ~input_data.given
       THEN [raised |-> "none", named |-> {}, referenced |-> refd]
       ELSE IF missing_inputs # {}
       THEN [raised |-> "missing_input_data", named |-> missing_inputs, referenced |-> refd]
       ELSE [raised |-> "none", named |-> {}, referenced |-> refd \cup Range(input_names)]

execute(input_data) ==
    LET inputs == Range(input_concept_names)
        processed == process_input_data(input_data, input_concept_names, referenced)
        refd == processed.referenced
        missing_refs == { n \in inputs : n \notin refd }
        renewed == RenewInferences(inference_registry, input_concept_names)
        ireg == renewed.inference_registry
    IN IF input_concept_names = <<>> \/ output_concept_name = None
       THEN Finish(inference_registry, inference_order, referenced,
                   Outcome("execute", "io_not_configured", {}, {}, 0))
       ELSE IF processed.raised # "none"
       THEN Finish(inference_registry, inference_order, refd,
                   Outcome("execute", processed.raised, processed.named, {}, 0))
       ELSE IF missing_refs # {}
       THEN Finish(inference_registry, inference_order, refd,
                   Outcome("execute", "missing_references", missing_refs, {}, 0))
       ELSE IF renewed.raised # "none"
       THEN Finish(ireg, inference_order, refd,
                   Outcome("execute", renewed.raised, {}, {}, 0))
       ELSE IF inference_order # <<>>
       THEN ExecuteOrder(ireg, inference_order, refd)
       ELSE \E r \in OrderOutcomes(ireg, input_concept_names, concept_registry, refd) :
               IF r.raised # "none"
               THEN Finish(ireg, inference_order, refd,
                           Outcome("execute", r.raised, r.named, r.stranded, 0))
               ELSE ExecuteOrder(ireg, r.ordered, refd)

----------------------------------------------------------------------------

Next ==
    \/ \E n \in Names : add_concept(n)
    \/ \E d \in Descriptors : add_inference(d)
    \/ \E i \in InputNameChoices, o \in OutputNameChoices : set_input_output_concepts(i, o)
    \/ order_inference
    \/ \E input_data \in InputDataChoices : execute(input_data)

Spec == Init /\ [][Next]_vars

----------------------------------------------------------------------------
(* Reference (_reference.py).  A Python value held in a tensor is modelled  *)
(* by a record: k is its kind ("int", "none", "str" for the skip string,    *)
(* "fn" for a callable, "list"), n the number of an int, f the name of a    *)
(* callable, items the elements of a list.  Two values are equal in Python  *)
(* exactly when their records are equal.  Positions count from 0 as in the  *)
(* source; the items of a list are numbered from 1.                         *)

Value(k, n, f, items) == [k |-> k, n |-> n, f |-> f, items |-> items]

Scalar(n) == Value("int", n, "", <<>>)
NoneValue == Value("none", 0, "", <<>>)
List(items) == Value("list", 0, "", items)
Callable(f) == Value("fn", 0, f, <<>>)

\* skip_value="@#SKIP#@"
skip_value == Value("str", 0, "@#SKIP#@", <<>>)

\* an exception that leaves a helper: TypeError or ValueError
Raised(error) == Value("raised", 0, error, <<>>)
IsRaised(v) == v.k = "raised"

isinstance_list(v) == v.k = "list"

Repeat(v, n) == [i \in 1..n |-> v]

\* Reference._create_nested_list
RECURSIVE create_nested_list(_, _)
create_nested_list(shape, initial_value) ==
    IF shape = <<>>
    THEN initial_value
    ELSE List(Repeat(create_nested_list(Tail(shape), initial_value), Head(shape)))

\* Reference.__init__, for axes and a shape of the same length
Reference(axes, shape, initial_value) ==
    [axes |-> axes, shape |-> shape, data |-> create_nested_list(shape, initial_value)]

\* an index of get and set: an int position, or slice(None)
At(i) == [slice |-> FALSE, at |-> i]
slice_None == [slice |-> TRUE, at |-> 0]

\* indices.append(kwargs.get(axis, slice(None))) for axis in self.axes
Indices(axes, kwargs) ==
    [i \in 1..Len(axes) |->
        IF axes[i] \in DOMAIN kwargs THEN At(kwargs[axes[i]]) ELSE slice_None]

FirstRaised(s) == s[Min({ i \in 1..Len(s) : IsRaised(s[i]) })]

\* Reference._get_element
RECURSIVE get_element(_, _)
get_element(data, indices) ==
    IF indices = <<>>
    THEN data
    ELSE IF ~isinstance_list(data)
    THEN Raised("TypeError")
    ELSE LET current == Head(indices)
             remaining == Tail(indices)
         IN IF current.slice
            THEN LET elements ==
                        [i \in 1..Len(data.items) |->
                            IF data.items[i] # skip_value
                            THEN get_element(data.items[i], remaining)
                            ELSE skip_value]
                 IN IF \E i \in 1..Len(elements) : IsRaised(elements[i])
                    THEN FirstRaised(elements)
                    ELSE List(elements)
            ELSE IF /\ current.at < Len(data.items)
                    /\ data.items[current.at + 1] # skip_value
                 THEN get_element(data.items[current.at + 1], remaining)
                 ELSE skip_value

\* Reference.get: the value returned, or the error raised
get(ref, kwargs) ==
    IF \E key \in DOMAIN kwargs : key \notin Range(ref.axes)
    THEN [raised |-> "KeyError", value |-> NoneValue]
    ELSE LET got == get_element(ref.data, Indices(ref.axes, kwargs))
         IN IF IsRaised(got)
            THEN [raised |-> got.f, value |-> NoneValue]
            ELSE [raised |-> "none", value |-> got]

\* faulty variant: a skip value is not written
store_unless_skip(old, value) == IF value = skip_value THEN old ELSE value

\* data[current] = value
store(old, value) == value

\* faulty variant: data[i] = [] whatever data[i] is
Opened_always(cell) == List(<<>>)

\* if data[i] == self.skip_value: data[i] = []
Opened(cell) == IF cell = skip_value THEN List(<<>>) ELSE cell

\* Reference._set_element: the list data becomes, or the error raised.  With
\* no index left the target is the data of a Reference without axes: the
\* initial value, which data[:] = value cannot assign to.
RECURSIVE set_element(_, _, _)
set_element(data, indices, value) ==
    IF indices = <<>>
    THEN IF isinstance_list(value) THEN Raised("ValueError") ELSE Raised("TypeError")
    ELSE IF ~isinstance_list(data)
    THEN Raised("TypeError")
    ELSE LET current == Head(indices)
             remaining == Tail(indices)
             at == current.at + 1
             extended == IF current.slice \/ current.at < Len(data.items)
                         THEN data.items
                         ELSE data.items \o Repeat(skip_value, at - Len(data.items))
             targets == IF current.slice THEN 1..Len(extended) ELSE {at}
             written ==
                 [i \in 1..Len(extended) |->
                     IF i \notin targets
                     THEN extended[i]
                     ELSE IF remaining # <<>>
                     THEN set_element(Opened(extended[i]), remaining, value)
                     ELSE store(extended[i], value)]
         IN IF \E i \in targets : remaining # <<>> /\ IsRaised(written[i])
            THEN FirstRaised(written)
            ELSE List(written)

\* Reference.set: the Reference afterwards and the error raised
set(ref, value, kwargs) ==
    IF \E key \in DOMAIN kwargs : key \notin Range(ref.axes)
    THEN [raised |-> "KeyError", ref |-> ref]
    ELSE LET data == set_element(ref.data, Indices(ref.axes, kwargs), value)
         IN IF IsRaised(data)
            THEN [raised |-> data.f, ref |-> ref]
            ELSE [raised |-> "none", ref |-> [ref EXCEPT !.data = data]]

----------------------------------------------------------------------------
(* A Reference under get and set *)

Positions == {0, 1}

AxisNames == {"x", "y"}

\* the keyword arguments of get and set
KwargsChoices == UNION { [S -> Positions] : S \in SUBSET AxisNames }

\* the values written: a scalar, the skip value, a list
SetValues == { Scalar(1), skip_value, List(<<Scalar(1)>>) }

\* the (axes, shape) the References are created with
NewReferences ==
    { Reference(<<>>, <<>>, NoneValue),
      Reference(<<"x">>, <<1>>, NoneValue),
      Reference(<<"x", "y">>, <<1, 1>>, NoneValue) }

\* the outcome of a call: its arguments, the error raised ("none" when it
\* returns), the value or the Reference returned, the data of A before, and
\* the indices at which the call invoked a function
Called(op, args, value, raised, returned, before) ==
    [op |-> op, args |-> args, value |-> value, raised |-> raised,
     returned |-> returned, before |-> before, calls |-> {}]

ReferenceInit ==
    /\ NewPlan
    /\ EmptyMemory
    /\ A \in NewReferences
    /\ B = None
    /\ result = Called("init", <<>>, NoneValue, "none", NoneValue, NoneValue)

Reference_set(value, kwargs) ==
    LET r == set(A, value, kwargs)
    IN /\ A' = r.ref
       /\ result' = Called("set", kwargs, value, r.raised, NoneValue, A.data)
       /\ UNCHANGED <<B, memory, plan_vars>>

Reference_get(kwargs) ==
    LET r == get(A, kwargs)
    IN /\ result' = Called("get", kwargs, NoneValue, r.raised, r.value, A.data)
       /\ UNCHANGED <<A, B, memory, plan_vars>>

ReferenceNext ==
    \/ \E value \in SetValues, kwargs \in KwargsChoices : Reference_set(value, kwargs)
    \/ \E kwargs \in KwargsChoices : Reference_get(kwargs)

ReferenceSpec == ReferenceInit /\ [][ReferenceNext]_vars

----------------------------------------------------------------------------
(* The memory store of the agent frame *)

\* the most entries the memory file holds
MaxEntries == 2

\* the names of the indices, in sorted order
IndexNames == <<"i", "j">>

\* f"{k}_{v}"
Token(k, v) == k \o "_" \o ToString(v)

\* f"{k}_{v}" for k, v in sorted(index_dict.items()): the parts that
\* '::' joins and split('::') gives back
sorted_indices(index_dict) ==
    LET keys == SelectSeq(IndexNames, LAMBDA k : k \in DOMAIN index_dict)
    IN [i \in 1..Len(keys) |-> Token(keys[i], index_dict[keys[i]])]

\* the key of an entry, as the parts that '|' joins and split('|') gives
\* back: concept_name|name|sorted_indices, or concept_name|name when no
\* index is given
MemoryKey(name, concept_name, index_dict) ==
    IF DOMAIN index_dict # {}
    THEN <<concept_name, name, sorted_indices(index_dict)>>
    ELSE <<concept_name, name>>

\* data[key] = value on the dict read from the file
remember_in(data, key, value) ==
    IF \E i \in 1..Len(data) : data[i].key = key
    THEN [i \in 1..Len(data) |->
            IF data[i].key = key THEN [key |-> key, value |-> value] ELSE data[i]]
    ELSE Append(data, [key |-> key, value |-> value])

\* _remember_in_concept_name_location_dict: the file after the call
remember(data, name, value, concept_name, index_dict) ==
    remember_in(data, MemoryKey(name, concept_name, index_dict), value)

\* an entry of the memory matches the query
recollect_matches(key_parts, name, concept_name_list, indices) ==
    /\ Len(key_parts) = 3
    /\ key_parts[1] \in concept_name_list
    /\ key_parts[2] = name
    /\ LET target_indices == { Token(k, indices[k]) : k \in DOMAIN indices }
           stored_indices == Range(key_parts[3])
       IN target_indices \subseteq stored_indices \/ stored_indices \subseteq target_indices

\* _recollect_by_concept_name_location_dict: the value of the first entry
\* that matches, or None
recollect(data, name, concept_name_list, indices) ==
    LET matching == { i \in 1..Len(data) :
                        recollect_matches(data[i].key, name, concept_name_list, indices) }
    IN IF matching = {} THEN None ELSE data[Min(matching)].value

MemoryNames == {"n", "m"}
ConceptNames == {"c", "d"}
ConceptNameLists == { {"c"}, {"c", "d"} }
MemoryValues == {"v1", "v2"}

\* the index of a call: none, one index, another value of it, two indices
IndexChoices ==
    { <<>>, [k \in {"i"} |-> 0], [k \in {"i"} |-> 1], [k \in {"i", "j"} |-> 0] }

MemoryInit ==
    /\ NewPlan
    /\ EmptyMemory
    /\ A = None
    /\ B = None
    /\ result = Called("init", <<>>, NoneValue, "none", NoneValue, NoneValue)

Memory_remember(name, value, concept_name, index_dict) ==
    /\ \/ Len(memory) < MaxEntries
       \/ \E i \in 1..Len(memory) :
            memory[i].key = MemoryKey(name, concept_name, index_dict)
    /\ memory' = remember(memory, name, value, concept_name, index_dict)
    /\ result' = Called("remember",
                        [name |-> name, concept_name |-> concept_name, index |-> index_dict],
                        value, "none", None, memory)
    /\ UNCHANGED <<A, B, plan_vars>>

Memory_recollect(name, concept_name_list, indices) ==
    /\ result' = Called("recollect",
                        [name |-> name, concept_names |-> concept_name_list, index |-> indices],
                        None, "none", recollect(memory, name, concept_name_list, indices),
                        memory)
    /\ UNCHANGED <<A, B, memory, plan_vars>>

MemoryNext ==
    \/ \E name \in {"n"}, value \in MemoryValues, concept_name \in ConceptNames,
          index_dict \in IndexChoices :
            Memory_remember(name, value, concept_name, index_dict)
    \/ \E name \in MemoryNames, concept_name_list \in ConceptNameLists,
          indices \in IndexChoices :
            Memory_recollect(name, concept_name_list, indices)

MemorySpec == MemoryInit /\ [][MemoryNext]_vars

----------------------------------------------------------------------------
(* Projection (Reference.slice) and the tensor algebra *)

\* Reference._pad_tensor
RECURSIVE pad_tensor(_, _)
pad_tensor(tensor, target_shape) ==
    IF target_shape = <<>>
    THEN tensor
    ELSE LET current_dim == Head(target_shape)
         IN IF ~isinstance_list(tensor)
            THEN List(Repeat(skip_value, current_dim))
            ELSE List([i \in 1..current_dim |->
                        IF i <= Len(tensor.items)
                        THEN pad_tensor(tensor.items[i], Tail(target_shape))
                        ELSE pad_tensor(skip_value, Tail(target_shape))])

\* Reference(axes, shape, None, "@#SKIP#@")._replace_data(new_data)
replace_data(axes, shape, new_data) ==
    [axes |-> axes, shape |-> shape, data |-> pad_tensor(new_data, shape)]

\* self.axes.index(axis)
IndexOf(axes, axis) == Min({ i \in 1..Len(axes) : axes[i] = axis })

\* index_dict with axis bound to i
Put(index_dict, axis, i) ==
    [a \in (DOMAIN index_dict) \cup {axis} |-> IF a = axis THEN i ELSE index_dict[a]]

\* {axis: index_dict[axis] for axis in ref.axes}
IndicesOf(ref, index_dict) == [a \in Range(ref.axes) |-> index_dict[a]]

\* the leaf of build_sliced_data: the sub-tensor is the skip value, or a
\* list one of whose elements is the skip value, or it is kept
collapse(sub_tensor) ==
    IF sub_tensor = skip_value
    THEN skip_value
    ELSE IF /\ isinstance_list(sub_tensor)
            /\ \E i \in 1..Len(sub_tensor.items) : sub_tensor.items[i] = skip_value
    THEN skip_value
    ELSE sub_tensor

\* build_sliced_data of Reference.slice
RECURSIVE build_sliced_data(_, _, _, _, _)
build_sliced_data(ref, selected_axes, new_shape, current_axes, index_dict) ==
    IF current_axes = <<>>
    THEN LET kwargs == [a \in Range(selected_axes) |->
                           index_dict[IndexOf(selected_axes, a)]]
         IN collapse(get(ref, kwargs).value)
    ELSE LET axis_size == new_shape[Len(index_dict) + 1]
         IN List([i \in 1..axis_size |->
                    build_sliced_data(ref, selected_axes, new_shape,
                                      Tail(current_axes), Append(index_dict, i - 1))])

\* Reference.slice: the Reference returned, or the error raised
slice(ref, selected_axes) ==
    IF \E i \in 1..Len(selected_axes) : selected_axes[i] \notin Range(ref.axes)
    THEN [raised |-> "KeyError", ref |-> NoneValue]
    ELSE IF Len(selected_axes) # Cardinality(Range(selected_axes))
    THEN [raised |-> "ValueError", ref |-> NoneValue]
    ELSE IF selected_axes = <<>>
    THEN [raised |-> "ValueError", ref |-> NoneValue]
    ELSE LET new_shape == [i \in 1..Len(selected_axes) |->
                              ref.shape[IndexOf(ref.axes, selected_axes[i])]]
             sliced_data == build_sliced_data(ref, selected_axes, new_shape,
                                              selected_axes, <<>>)
         IN [raised |-> "none", ref |-> replace_data(selected_axes, new_shape, sliced_data)]

\* the axes of the operands in the order they are first seen
RECURSIVE axis_order(_)
axis_order(references) ==
    IF references = <<>>
    THEN <<>>
    ELSE LET seen == axis_order(SubSeq(references, 1, Len(references) - 1))
             ref == references[Len(references)]
         IN seen \o SelectSeq(ref.axes, LAMBDA a : a \notin Range(seen))

\* the operand that sees axis first
FirstWith(references, axis) ==
    references[Min({ i \in 1..Len(references) : axis \in Range(references[i].axes) })]

SizeOf(ref, axis) == ref.shape[IndexOf(ref.axes, axis)]

\* axis_shapes[axis]: the size in the operand that sees the axis first
axis_shapes(references, axis) == SizeOf(FirstWith(references, axis), axis)

\* "Shape mismatch for axis": an operand's size differs from axis_shapes
ShapeMismatch(references) ==
    \E i \in 1..Len(references) : \E a \in Range(references[i].axes) :
        SizeOf(references[i], a) # axis_shapes(references, a)

\* faulty variant: the elements are returned without the test for a skip
\* value
cross_product_elements_unchecked(references, index_dict) ==
    List([i \in 1..Len(references) |->
            get(references[i], IndicesOf(references[i], index_dict)).value])

\* faulty variant: only the element of the first operand is tested for the
\* skip value
cross_product_elements_first_checked(references, index_dict) ==
    LET elements == [i \in 1..Len(references) |->
                        get(references[i], IndicesOf(references[i], index_dict)).value]
    IN IF elements[1] = skip_value
       THEN skip_value
       ELSE List(elements)

\* the leaf of build_data of cross_product
cross_product_elements(references, index_dict) ==
    LET elements == [i \in 1..Len(references) |->
                        get(references[i], IndicesOf(references[i], index_dict)).value]
    IN IF \E i \in 1..Len(elements) : elements[i] = skip_value
       THEN skip_value
       ELSE List(elements)

\* build_data of cross_product
RECURSIVE cross_product_build_data(_, _, _)
cross_product_build_data(references, current_axes, index_dict) ==
    IF current_axes = <<>>
    THEN cross_product_elements(references, index_dict)
    ELSE LET axis == Head(current_axes)
             axis_size == axis_shapes(references, axis)
         IN List([i \in 1..axis_size |->
                    cross_product_build_data(references, Tail(current_axes),
                                             Put(index_dict, axis, i - 1))])

\* cross_product, for a list of References: the Reference returned, or the
\* error raised
cross_product(references) ==
    IF references = <<>>
    THEN [raised |-> "ValueError", ref |-> NoneValue]
    ELSE IF ShapeMismatch(references)
    THEN [raised |-> "ValueError", ref |-> NoneValue]
    ELSE LET combined_axes == axis_order(references)
             combined_shape == [i \in 1..Len(combined_axes) |->
                                   axis_shapes(references, combined_axes[i])]
             new_data == cross_product_build_data(references, combined_axes, <<>>)
         IN [raised |-> "none",
             ref |-> replace_data(combined_axes, combined_shape, new_data)]

\* len("@#SKIP#@")
SkipLen == 8

\* len(v) of a list or of the skip string
len(v) == IF isinstance_list(v) THEN Len(v.items) ELSE SkipLen

\* func(input_val), for the callables of the cells: z -> [z, z*2] and
\* z -> [z+1, z-1] (the lambdas of Example 4), z -> z*2 that returns no
\* list, and a callable that raises
Apply(func, input_val) ==
    IF func.f = "double" /\ input_val.k = "int"
    THEN List(<<input_val, Scalar(input_val.n * 2)>>)
    ELSE IF func.f = "double" /\ input_val.k = "list"
    THEN List(<<input_val, List(input_val.items \o input_val.items)>>)
    ELSE IF func.f = "incdec" /\ input_val.k = "int"
    THEN List(<<Scalar(input_val.n + 1), Scalar(input_val.n - 1)>>)
    ELSE IF func.f = "twice" /\ input_val.k = "int"
    THEN Scalar(input_val.n * 2)
    ELSE Raised("Exception")

callable(v) == v.k = "fn"

\* the leaf of build_data of cross_action; a cell of A that is not callable
\* raises TypeError out of cross_action
cross_action_cell(A_ref, B_ref, index_dict) ==
    LET func == get(A_ref, IndicesOf(A_ref, index_dict)).value
        input_val == get(B_ref, IndicesOf(B_ref, index_dict)).value
    IN IF func = skip_value \/ input_val = skip_value
       THEN skip_value
       ELSE IF ~callable(func)
       THEN Raised("TypeError")
       ELSE LET called == Apply(func, input_val)
            IN IF IsRaised(called)
               THEN skip_value
               ELSE IF ~isinstance_list(called)
               THEN skip_value
               ELSE IF \E i \in 1..Len(called.items) : called.items[i] = skip_value
               THEN skip_value
               ELSE called

\* build_data of cross_action
RECURSIVE cross_action_build_data(_, _, _, _)
cross_action_build_data(A_ref, B_ref, current_axes, index_dict) ==
    IF current_axes = <<>>
    THEN cross_action_cell(A_ref, B_ref, index_dict)
    ELSE LET axis == Head(current_axes)
             axis_size == axis_shapes(<<A_ref, B_ref>>, axis)
             built == [i \in 1..axis_size |->
                         cross_action_build_data(A_ref, B_ref, Tail(current_axes),
                                                 Put(index_dict, axis, i - 1))]
         IN IF \E i \in 1..axis_size : IsRaised(built[i])
            THEN FirstRaised(built)
            ELSE List(built)

\* retrieved_entry: the first entry of new_data at the depth of the
\* combined axes
RECURSIVE retrieved_entry(_, _)
retrieved_entry(entry, depth) ==
    IF depth = 0
    THEN entry
    ELSE IF isinstance_list(entry) /\ entry.items = <<>>
    THEN entry
    ELSE retrieved_entry(entry.items[1], depth - 1)

\* the size of the new axis
new_axis_size(new_data, depth) ==
    LET entry == retrieved_entry(new_data, depth)
    IN IF isinstance_list(entry) /\ entry.items = <<>> THEN 0 ELSE len(entry)

\* cross_action: the Reference returned, or the error raised
cross_action(A_ref, B_ref, new_axis_name) ==
    IF ShapeMismatch(<<A_ref, B_ref>>)
    THEN [raised |-> "ValueError", ref |-> NoneValue]
    ELSE LET combined_axes == axis_order(<<A_ref, B_ref>>)
             combined_shape == [i \in 1..Len(combined_axes) |->
                                   axis_shapes(<<A_ref, B_ref>>, combined_axes[i])]
             new_data == cross_action_build_data(A_ref, B_ref, combined_axes, <<>>)
         IN IF IsRaised(new_data)
            THEN [raised |-> new_data.f, ref |-> NoneValue]
            ELSE [raised |-> "none",
                  ref |-> replace_data(
                              Append(combined_axes, new_axis_name),
                              Append(combined_shape,
                                     new_axis_size(new_data, Len(combined_shape))),
                              new_data)]

\* f(*elements), or f(*elements, index_dict) with index_awareness, for
\* add(a, b) of Example 5 and for a function that raises; add raises
\* TypeError when it is not given two ints
ApplyElements(f, elements, index_awareness) ==
    IF /\ f = "add"
       /\ ~index_awareness
       /\ Len(elements) = 2
       /\ elements[1].k = "int"
       /\ elements[2].k = "int"
    THEN Scalar(elements[1].n + elements[2].n)
    ELSE Raised("Exception")

\* faulty variant: every element is read from the first operand
element_action_elements_first_operand(references, index_dict) ==
    [i \in 1..Len(references) |->
        LET element == get(references[1], IndicesOf(references[1], index_dict)).value
        IN IF element # skip_value THEN element ELSE skip_value]

\* the elements build_data of element_action collects at an index
element_action_elements(references, index_dict) ==
    [i \in 1..Len(references) |->
        LET element == get(references[i], IndicesOf(references[i], index_dict)).value
        IN IF element # skip_value THEN element ELSE skip_value]

\* the leaf of build_data of element_action
element_action_cell(f, references, index_awareness, index_dict) ==
    LET elements == element_action_elements(references, index_dict)
    IN IF \E i \in 1..Len(elements) : elements[i] = skip_value
       THEN skip_value
       ELSE LET called == ApplyElements(f, elements, index_awareness)
            IN IF IsRaised(called) THEN skip_value ELSE called

\* build_data of element_action
RECURSIVE element_action_build_data(_, _, _, _, _)
element_action_build_data(f, references, index_awareness, current_axes, index_dict) ==
    IF current_axes = <<>>
    THEN element_action_cell(f, references, index_awareness, index_dict)
    ELSE LET axis == Head(current_axes)
             axis_size == axis_shapes(references, axis)
         IN List([i \in 1..axis_size |->
                    element_action_build_data(f, references, index_awareness,
                                              Tail(current_axes),
                                              Put(index_dict, axis, i - 1))])

\* element_action: the Reference returned, or the error raised
element_action(f, references, index_awareness) ==
    IF references = <<>>
    THEN [raised |-> "ValueError", ref |-> NoneValue]
    ELSE IF ShapeMismatch(references)
    THEN [raised |-> "ValueError", ref |-> NoneValue]
    ELSE LET combined_axes == axis_order(references)
             combined_shape == [i \in 1..Len(combined_axes) |->
                                   axis_shapes(references, combined_axes[i])]
             new_data == element_action_build_data(f, references, index_awareness,
                                                   combined_axes, <<>>)
         IN [raised |-> "none",
             ref |-> replace_data(combined_axes, combined_shape, new_data)]

----------------------------------------------------------------------------
(* The References the algebra is exercised on, and its operations *)

\* the most cells of an operand that hold the skip value
MaxAbsent == 1

\* every full index of a Reference of these axes and this shape
AllPositions(axes, shape) ==
    { kwargs \in [Range(axes) -> 0..2] :
        \A i \in 1..Len(axes) : kwargs[axes[i]] < shape[i] }

\* r = Reference(axes, shape); r.set(cells[kwargs], **kwargs) for the full
\* indices kwargs of todo
RECURSIVE FillAll(_, _, _)
FillAll(ref, cells, todo) ==
    IF todo = {}
    THEN ref
    ELSE LET kwargs == CHOOSE k \in todo : TRUE
         IN FillAll(set(ref, cells[kwargs], kwargs).ref, cells, todo \ {kwargs})

Filled(axes, shape, cells) ==
    FillAll(Reference(axes, shape, NoneValue), cells, AllPositions(axes, shape))

\* a cell value that names its position: base + x + 2y + 4z
CodeOf(base, kwargs) ==
    base + (IF "x" \in DOMAIN kwargs THEN kwargs["x"] ELSE 0)
         + (IF "y" \in DOMAIN kwargs THEN 2 * kwargs["y"] ELSE 0)
         + (IF "z" \in DOMAIN kwargs THEN 4 * kwargs["z"] ELSE 0)
         + (IF "w" \in DOMAIN kwargs THEN kwargs["w"] ELSE 0)

\* the References of these axes and this shape whose cells hold distinct
\* ints, but for at most MaxAbsent cells that hold the skip value
ValueReferences(axes, shape, base) ==
    { Filled(axes, shape,
             [kwargs \in AllPositions(axes, shape) |->
                 IF kwargs \in holes THEN skip_value ELSE Scalar(CodeOf(base, kwargs))]) :
        holes \in { h \in SUBSET AllPositions(axes, shape) : Cardinality(h) <= MaxAbsent } }

\* the input of Example 4: B = [5, 3, 7] along its axis, with holes
InputReferences(axis) ==
    { Filled(<<axis>>, <<3>>,
             [kwargs \in AllPositions(<<axis>>, <<3>>) |->
                 IF kwargs \in holes THEN skip_value
                 ELSE Scalar(<<5, 3, 7>>[kwargs[axis] + 1])]) :
        holes \in { h \in SUBSET AllPositions(<<axis>>, <<3>>) : Cardinality(h) <= MaxAbsent } }

\* the cells of a Reference of functions
FunctionCells ==
    { Callable("double"), Callable("incdec"), Callable("twice"), Callable("raises"),
      skip_value }

\* the References of functions along x, as A of Example 4
FunctionReferences ==
    { Filled(<<"x">>, <<3>>,
             [kwargs \in AllPositions(<<"x">>, <<3>>) |-> cells[kwargs["x"] + 1]]) :
        cells \in [1..3 -> FunctionCells] }

\* the References that are projected
Projected ==
    ValueReferences(<<"x", "y", "z">>, <<2, 2, 2>>, 10)
        \cup ValueReferences(<<"x", "y">>, <<2, 2>>, 10)

AxisChoices == {"x", "y", "z"}

\* the arguments of slice: every selection of at most three axes
Selections ==
    UNION { [1..n -> AxisChoices] : n \in 0..3 }

ProjectionInit ==
    /\ NewPlan
    /\ EmptyMemory
    /\ A \in Projected
    /\ B = None
    /\ result = Called("init", <<>>, NoneValue, "none", NoneValue, NoneValue)

Reference_slice(selected_axes) ==
    LET r == slice(A, selected_axes)
    IN /\ result' = Called("slice", selected_axes, NoneValue, r.raised, r.ref, A.data)
       /\ UNCHANGED <<A, B, memory, plan_vars>>

ProjectionNext == \E selected_axes \in Selections : Reference_slice(selected_axes)

ProjectionSpec == ProjectionInit /\ [][ProjectionNext]_vars

OperandsA ==
    ValueReferences(<<"x", "y">>, <<2, 2>>, 10)
        \cup FunctionReferences

OperandsB ==
    InputReferences("y") \cup InputReferences("x")
        \cup ValueReferences(<<"y">>, <<2>>, 30)
        \cup ValueReferences(<<"w">>, <<2>>, 40)

\* the lists of operands of cross_product
OperandLists == { <<"A">>, <<"A", "B">>, <<"B", "A">>, <<"A", "B", "A">> }

Operand(name) == IF name = "A" THEN A ELSE B

AlgebraInit ==
    /\ NewPlan
    /\ EmptyMemory
    /\ A \in OperandsA
    /\ B \in OperandsB
    /\ result = Called("init", <<>>, NoneValue, "none", NoneValue, NoneValue)

Reference_cross_product(names) ==
    LET r == cross_product([i \in 1..Len(names) |-> Operand(names[i])])
    IN /\ result' = Called("cross_product", names, NoneValue, r.raised, r.ref, A.data)
       /\ UNCHANGED <<A, B, memory, plan_vars>>

\* the position of an index in the order build_data visits the indices
PathOf(axes, kwargs) == [i \in 1..Len(axes) |-> kwargs[axes[i]]]

Precedes(p, q) ==
    \E i \in 1..Len(p) : p[i] < q[i] /\ \A j \in 1..(i - 1) : p[j] = q[j]

\* every index build_data visits when no cell raises
Visited(references) ==
    AllPositions(axis_order(references),
                 [i \in 1..Len(axis_order(references)) |->
                    axis_shapes(references, axis_order(references)[i])])

\* faulty variant: the function is invoked whatever the input is
cross_action_invokes_any_input(A_ref, B_ref, index_dict) ==
    LET func == get(A_ref, IndicesOf(A_ref, index_dict)).value
    IN func # skip_value /\ callable(func)

\* build_data of cross_action reaches func(input_val) at this index
cross_action_invokes(A_ref, B_ref, index_dict) ==
    LET func == get(A_ref, IndicesOf(A_ref, index_dict)).value
        input_val == get(B_ref, IndicesOf(B_ref, index_dict)).value
    IN func # skip_value /\ input_val # skip_value /\ callable(func)

\* the indices at which cross_action invokes a function: those visited
\* before the first cell that raises out of build_data
cross_action_calls(A_ref, B_ref) ==
    IF ShapeMismatch(<<A_ref, B_ref>>)
    THEN {}
    ELSE LET axes == axis_order(<<A_ref, B_ref>>)
             raising == { q \in Visited(<<A_ref, B_ref>>) :
                            IsRaised(cross_action_cell(A_ref, B_ref, q)) }
         IN { k \in Visited(<<A_ref, B_ref>>) :
                /\ cross_action_invokes(A_ref, B_ref, k)
                /\ \A q \in raising : Precedes(PathOf(axes, k), PathOf(axes, q)) }

\* build_data of element_action reaches f(*elements) at this index
element_action_invokes(references, index_dict) ==
    ~\E i \in 1..Len(references) :
        element_action_elements(references, index_dict)[i] = skip_value

\* the indices at which element_action invokes f
element_action_calls(references) ==
    IF references = <<>> \/ ShapeMismatch(references)
    THEN {}
    ELSE { k \in Visited(references) : element_action_invokes(references, k) }

Reference_cross_action(new_axis_name) ==
    LET r == cross_action(A, B, new_axis_name)
    IN /\ result' = [Called("cross_action", <<new_axis_name>>, NoneValue, r.raised,
                             r.ref, A.data)
                        EXCEPT !.calls = cross_action_calls(A, B)]
       /\ UNCHANGED <<A, B, memory, plan_vars>>

AlgebraNext ==
    \/ \E names \in OperandLists : Reference_cross_product(names)
    \/ Reference_cross_action("result")

AlgebraSpec == AlgebraInit /\ [][AlgebraNext]_vars

\* the References of functions along x of Example 4, with two cells
SmallFunctionReferences ==
    { Filled(<<"x">>, <<2>>,
             [kwargs \in AllPositions(<<"x">>, <<2>>) |-> cells[kwargs["x"] + 1]]) :
        cells \in [1..2 -> FunctionCells] }

\* the operands of Example 5: A and B over (x, y), and operands over other
\* axes and extents
ActionOperandsA ==
    ValueReferences(<<"x", "y">>, <<2, 2>>, 10) \cup SmallFunctionReferences

ActionOperandsB ==
    ValueReferences(<<"x", "y">>, <<2, 2>>, 50)
        \cup ValueReferences(<<"y">>, <<2>>, 30)
        \cup { Reference(<<"y">>, <<3>>, NoneValue) }

\* f and index_awareness of element_action: add of Example 5, with and
\* without the index, and a function that raises
FunctionChoices ==
    { [f |-> "add", index_awareness |-> FALSE],
      [f |-> "add", index_awareness |-> TRUE],
      [f |-> "raises", index_awareness |-> FALSE] }

ElementOperandLists == { <<"A">>, <<"A", "B">>, <<"B", "A">> }

\* new_axis_name of cross_action: a new name, and the name of an axis of A
NewAxisNames == {"result", "x"}

ActionInit ==
    /\ NewPlan
    /\ EmptyMemory
    /\ A \in ActionOperandsA
    /\ B \in ActionOperandsB
    /\ result = Called("init", <<>>, NoneValue, "none", NoneValue, NoneValue)

Reference_element_action(f, names) ==
    LET references == [i \in 1..Len(names) |-> Operand(names[i])]
        r == element_action(f.f, references, f.index_awareness)
    IN /\ result' = [Called("element_action", names, f, r.raised, r.ref, A.data)
                        EXCEPT !.calls = element_action_calls(references)]
       /\ UNCHANGED <<A, B, memory, plan_vars>>

ActionNext ==
    \/ \E f \in FunctionChoices, names \in ElementOperandLists :
            Reference_element_action(f, names)
    \/ \E new_axis_name \in NewAxisNames : Reference_cross_action(new_axis_name)

ActionSpec == ActionInit /\ [][ActionNext]_vars

----------------------------------------------------------------------------
(* Vocabulary of the properties.  These definitions read the state only;   *)
(* they do not use the operators that model order_inference.               *)

NumInferences == Len(inference_registry)

InputsOf(i) == Range(inference_registry[i].key[1]) \cup {inference_registry[i].key[2]}
InferredOf(i) == inference_registry[i].key[3]

\* the initial concepts of an order_inference call made in this state
InitialNow == Range(input_concept_names) \cup (referenced \cap concept_registry)

HasDuplicateProducer ==
    \E i, j \in 1..NumInferences : i # j /\ InferredOf(i) = InferredOf(j)

UnresolvableOf(i) ==
    { n \in InputsOf(i) : n \notin InitialNow
                          /\ \A j \in 1..NumInferences : InferredOf(j) # n }

HasUnresolvable == \E i \in 1..NumInferences : UnresolvableOf(i) # {}

\* producer-to-consumer edge of the dependency graph
Edge(p, c) == InferredOf(p) \in InputsOf(c) \ InitialNow

RECURSIVE Descendants(_)
Descendants(S) ==
    LET T == S \cup { c \in 1..NumInferences : \E p \in S : Edge(p, c) }
    IN IF T = S THEN S ELSE Descendants(T)

OnCycle(i) == i \in Descendants({ c \in 1..NumInferences : Edge(i, c) })

HasCycle == \E i \in 1..NumInferences : OnCycle(i)

\* the inferences no order can place: on a cycle, or downstream of one
Stranded == Descendants({ i \in 1..NumInferences : OnCycle(i) })

OrderReturned == last.op = "order_inference" /\ last.raised = "none"

\* the first place in s of an Inference object with the key registered at
\* position i (0: none)
PlaceIn(s, i) ==
    LET at == { k \in 1..Len(s) : InferenceKey(s[k]) = inference_registry[i].key }
    IN IF at = {} THEN 0 ELSE Min(at)

PlaceOf(i) == PlaceIn(inference_order, i)

----------------------------------------------------------------------------
(* C1: whenever order_inference returns, inference_order holds every       *)
(* inference of inference_registry exactly once, and the producer of every *)
(* non-initial perception or cognition concept of an inference comes       *)
(* before that inference.                                                  *)

C1_OrderIsTopological ==
    OrderReturned =>
        /\ Len(inference_order) = NumInferences
        /\ \A i \in 1..NumInferences :
              Cardinality({ k \in 1..Len(inference_order) :
                              inference_order[k] = inference_registry[i].inf }) = 1
        /\ \A c \in 1..NumInferences : \A n \in InputsOf(c) \ InitialNow :
              \E p \in 1..NumInferences :
                 /\ InferredOf(p) = n
                 /\ PlaceOf(p) < PlaceOf(c)

C1_Witness ==
    /\ OrderReturned
    /\ NumInferences = 3
    /\ \E p, c \in 1..NumInferences : p > c /\ Edge(p, c)

----------------------------------------------------------------------------
(* C2: in every execute call, a registered inference whose perception or   *)
(* cognition concept is inferred by another registered inference is        *)
(* executed after that one.  Stated for the plans in which every inferred  *)
(* name has one producer and for the calls that ran their inferences to    *)
(* the end.                                                                *)

ExecutedLoop == last.op = "execute" /\ last.raised \in {"none", "no_output_reference"}

RanPlaceOf(i) == PlaceIn(Ran, i)

C2_ProducersExecuteFirst ==
    (ExecutedLoop /\ ~HasDuplicateProducer) =>
        \A p, c \in 1..NumInferences :
            (InferredOf(p) \in InputsOf(c) /\ RanPlaceOf(c) # 0)
                => (RanPlaceOf(p) # 0 /\ RanPlaceOf(p) < RanPlaceOf(c))

----------------------------------------------------------------------------
(* C3: every Inference object execute runs is the object inference_registry*)
(* holds under its key.                                                    *)

C3_ExecutesRegistryObjects ==
    last.op = "execute" =>
        \A k \in 1..last.ran :
            inference_order[k] = RegistryObject(inference_registry, inference_order[k])

----------------------------------------------------------------------------
(* C4: an execute call made after add_inference registered a new inference *)
(* orders and executes every registered inference, the new one included.   *)
(* Stated for the plans in which every inferred name has one producer and  *)
(* for the calls that ran their inferences to the end.                     *)

C4_ExecuteRunsNewInference ==
    (ExecutedLoop /\ ~HasDuplicateProducer) =>
        \A i \in 1..NumInferences : RanPlaceOf(i) # 0

----------------------------------------------------------------------------
(* C5: two registered inferences that each require the concept the other   *)
(* infers (neither concept initial) make order_inference raise the         *)
(* cyclic-dependency error, which lists every inference that could not be  *)
(* ordered with its inferred concept and its required concepts.            *)

MutualPair(i, j) == i # j /\ Edge(i, j) /\ Edge(j, i)

StrandedInfo ==
    { [inferred |-> InferredOf(i), requires |-> InputsOf(i)] : i \in Stranded }

\* the claim as stated
C5_CycleAlwaysReported ==
    (last.op = "order_inference" /\ \E i, j \in 1..NumInferences : MutualPair(i, j))
        => (last.raised = "cyclic" /\ last.stranded = StrandedInfo)

\* amended: when no concept has two producers and every non-initial
\* dependency has a producer
C5_CycleReported ==
    (/\ last.op = "order_inference"
     /\ ~HasDuplicateProducer
     /\ ~HasUnresolvable
     /\ \E i, j \in 1..NumInferences : MutualPair(i, j))
        => /\ last.raised = "cyclic"
           /\ last.stranded = StrandedInfo
           /\ \A i, j \in 1..NumInferences :
                 MutualPair(i, j) =>
                    {InferredOf(i), InferredOf(j)} \subseteq { x.inferred : x \in last.stranded }

C5_Witness ==
    /\ last.op = "order_inference"
    /\ last.raised = "cyclic"
    /\ \E i, j \in 1..NumInferences : MutualPair(i, j)
    /\ Cardinality(last.stranded) = 3

----------------------------------------------------------------------------
(* C6: order_inference raises the cyclic-dependency error only when the    *)
(* dependency graph has a cycle; with one producer per inferred name, a    *)
(* producer for every non-initial dependency and an acyclic graph it       *)
(* returns and orders every registered inference.                          *)

C6_AcyclicPlansAreOrdered ==
    last.op = "order_inference" =>
        /\ last.raised = "cyclic" => HasCycle
        /\ (~HasDuplicateProducer /\ ~HasUnresolvable /\ ~HasCycle)
              => /\ last.raised = "none"
                 /\ \A i \in 1..NumInferences : PlaceOf(i) # 0

C6_Witness ==
    /\ OrderReturned
    /\ NumInferences = 3
    /\ \E p, c \in 1..NumInferences : Edge(p, c)
    /\ \E c \in 1..NumInferences : Cardinality({ p \in 1..NumInferences : Edge(p, c) }) = 0

----------------------------------------------------------------------------
(* C7: order_inference raises the duplicate-producer error whenever two    *)
(* registered inferences infer the same concept name, and then produces no *)
(* ordering: inference_order stays as it was.                              *)

C7_DuplicateProducerRejected ==
    [][ (last'.op = "order_inference"
         /\ \E i, j \in 1..Len(inference_registry') :
               /\ i # j
               /\ inference_registry'[i].key[3] = inference_registry'[j].key[3])
        => (/\ last'.raised = "multiple_producers"
            /\ \E i, j \in 1..Len(inference_registry') :
                  /\ i # j
                  /\ inference_registry'[i].key[3] = inference_registry'[j].key[3]
                  /\ last'.named = {inference_registry'[i].key[3]}
            /\ inference_order' = inference_order) ]_vars

C7_Witness ==
    /\ last.op = "order_inference"
    /\ last.raised = "multiple_producers"
    /\ \E i, j \in 1..NumInferences :
          /\ i # j
          /\ InferredOf(i) = InferredOf(j)
          /\ inference_registry[i].key[2] # inference_registry[j].key[2]

----------------------------------------------------------------------------
(* C8: order_inference fails with an error naming concept n whenever a     *)
(* registered inference has a perception or cognition concept n that is    *)
(* neither initial nor inferred by a registered inference; no inference is *)
(* executed.                                                               *)

UnresolvedNames == UNION { UnresolvableOf(i) : i \in 1..NumInferences }

\* the claim as stated
C8_EveryUnresolvableNamed ==
    last.op = "order_inference" =>
        \A n \in UnresolvedNames : last.raised = "unresolvable" /\ n \in last.named

\* amended: the duplicate-producer check comes first, and the error names
\* one unresolvable concept of the first inference (in registration order)
\* that has one
C8_UnresolvableRejected ==
    /\ (last.op = "order_inference" /\ HasUnresolvable) =>
          /\ last.raised # "none"
          /\ ~HasDuplicateProducer =>
                /\ last.raised = "unresolvable"
                /\ Cardinality(last.named) = 1
                /\ last.named \subseteq
                      UnresolvableOf(Min({ i \in 1..NumInferences : UnresolvableOf(i) # {} }))
    /\ last.raised = "unresolvable" => last.ran = 0

C8_Witness ==
    /\ last.op = "order_inference"
    /\ last.raised = "unresolvable"
    /\ Cardinality(UnresolvedNames) >= 2
    /\ NumInferences >= 2

----------------------------------------------------------------------------
(* C9: B from A, C from B, D from A and C are ordered B-producer,          *)
(* C-producer, D-producer for each registration order; in general the      *)
(* ready inferences come first, in registration order, and an inference    *)
(* never comes before one of a smaller dependency depth (FIFO).            *)

ProducerOfB == << <<"A">>, "K", "B" >>
ProducerOfC == << <<"B">>, "K", "C" >>
ProducerOfD == << <<"A", "C">>, "K", "D" >>

ChainRegistered ==
    /\ NumInferences = 3
    /\ Range(Keys(inference_registry)) = {ProducerOfB, ProducerOfC, ProducerOfD}
    /\ {"A", "K"} \subseteq InitialNow
    /\ {"B", "C"} \cap InitialNow = {}

Max(S) == CHOOSE x \in S : \A y \in S : x >= y

\* the length of the longest chain of producers behind inference i
RECURSIVE Depth(_)
Depth(i) ==
    LET producers == { p \in 1..NumInferences : Edge(p, i) }
    IN IF producers = {} THEN 0 ELSE 1 + Max({ Depth(p) : p \in producers })

C9_OrderIsDeterministic ==
    OrderReturned =>
        /\ ChainRegistered =>
              [k \in 1..Len(inference_order) |-> InferenceKey(inference_order[k])]
                 = <<ProducerOfB, ProducerOfC, ProducerOfD>>
        /\ \A i, j \in 1..NumInferences :
              (/\ i < j
               /\ \A p \in 1..NumInferences : ~Edge(p, i) /\ ~Edge(p, j))
                 => PlaceOf(i) < PlaceOf(j)
        /\ \A i, j \in 1..NumInferences :
              Depth(i) < Depth(j) => PlaceOf(i) < PlaceOf(j)

C9_Witness ==
    /\ OrderReturned
    /\ ChainRegistered
    /\ Keys(inference_registry) = <<ProducerOfD, ProducerOfC, ProducerOfB>>

----------------------------------------------------------------------------
(* C10: two inferences with the same perception names in different orders, *)
(* the same cognition name and the same inferred name get the same         *)
(* registry key, so the second add_inference replaces the first.           *)

C10_KeyIgnoresPerceptionOrder ==
    \A i, j \in 1..NumInferences :
        (/\ Range(inference_registry[i].inf.perception_concepts)
              = Range(inference_registry[j].inf.perception_concepts)
         /\ inference_registry[i].inf.cognition_concept
              = inference_registry[j].inf.cognition_concept
         /\ inference_registry[i].inf.concept_to_infer
              = inference_registry[j].inf.concept_to_infer)
            => i = j

----------------------------------------------------------------------------
(* C11: an execute call whose input_data lacks an entry for a declared     *)
(* input raises before any input is processed and before any inference is  *)
(* executed, and leaves the references, the inference registry and         *)
(* inference_order as they were.                                           *)

C11_MissingInputLeavesPlanUnchanged ==
    [][ (\E input_data \in InputDataChoices :
            /\ input_data.given
            /\ Range(input_concept_names) \ input_data.keys # {}
            /\ execute(input_data))
        => (/\ last'.op = "execute"
            /\ last'.raised # "none"
            /\ last'.ran = 0
            /\ referenced' = referenced
            /\ inference_registry' = inference_registry
            /\ inference_order' = inference_order) ]_vars

C11_Witness ==
    /\ last.op = "execute"
    /\ last.raised = "missing_input_data"
    /\ "K" \in Range(input_concept_names)
    /\ last.named = {"A"}
    /\ NumInferences >= 2
    /\ Len(inference_order) >= 1

----------------------------------------------------------------------------
(* C12: execute returns only when every inference of inference_order has   *)
(* run and the output Concept holds a reference; when the loop ends and    *)
(* the output Concept holds none, it raises the missing-output error.      *)

C12_OutputReferenceReturned ==
    last.op = "execute" =>
        /\ last.raised = "none" =>
              /\ output_concept_name \in referenced
              /\ last.ran = Len(inference_order)
        /\ last.raised = "no_output_reference" =>
              /\ output_concept_name \notin referenced
              /\ last.named = {output_concept_name}
              /\ last.ran = Len(inference_order)

C12_WitnessReturned ==
    /\ last.op = "execute"
    /\ last.raised = "none"
    /\ last.ran >= 2

----------------------------------------------------------------------------
(* Vocabulary of the properties of References *)

\* every axis of ref is bound to a position
FullIndex(ref, kwargs) == DOMAIN kwargs = Range(ref.axes)

----------------------------------------------------------------------------
(* C13: get at a full index, right after a set(value) at the same index    *)
(* that returned, returns exactly value, for a scalar and for the skip     *)
(* value.                                                                  *)

----------------------------------------------------------------------------
(* C14: set fails and leaves the data unchanged when the value is a list   *)
(* and every axis of a Reference of rank one or more is bound.             *)

C14_ListLeafRejected ==
    (/\ result.op = "set"
     /\ isinstance_list(result.value)
     /\ Len(A.axes) >= 1
     /\ FullIndex(A, result.args))
        => /\ result.raised # "none"
           /\ A.data = result.before

\* the value a nested list holds at a path of positions
RECURSIVE Descend(_, _)
Descend(v, path) ==
    IF path = <<>> THEN v ELSE Descend(v.items[Head(path) + 1], Tail(path))

\* the cell of a Reference at a full index
CellAt(ref, kwargs) ==
    Descend(ref.data, [i \in 1..Len(ref.axes) |-> kwargs[ref.axes[i]]])

\* an index restricted to some axes
Restricted(kwargs, axes) == [a \in Range(axes) |-> kwargs[a]]

Sliced(n) ==
    /\ result.op = "slice"
    /\ result.raised = "none"
    /\ Len(A.axes) - Len(result.args) = n

\* C15: each cell of a projection is ABSENT whenever the sub-tensor it groups
\* holds an ABSENT cell, however many axes are projected away: every
\* ABSENT cell of the source makes the cell at its index over the selected
\* axes ABSENT.
C15_AbsentCollapses ==
    (result.op = "slice" /\ result.raised = "none") =>
        \A kwargs \in AllPositions(A.axes, A.shape) :
            CellAt(A, kwargs) = skip_value =>
                CellAt(result.returned, Restricted(kwargs, result.args)) = skip_value

NoAbsentCell(ref) ==
    \A kwargs \in AllPositions(ref.axes, ref.shape) : CellAt(ref, kwargs) # skip_value

\* C16: for a Reference without ABSENT cells, the projection onto some axes
\* and the projection in two steps, first onto a superset of the axes and
\* then onto the axes, are References of the same axes, shape and data.
C16_ProjectionComposes ==
    (result.op = "slice" /\ result.raised = "none" /\ NoAbsentCell(A)) =>
        \A superset \in Selections :
            (Range(result.args) \subseteq Range(superset)
                    /\ slice(A, superset).raised = "none") =>
                slice(slice(A, superset).ref, result.args)
                    = [raised |-> "none", ref |-> result.returned]

\* the operands of the last call of cross_product
Operands == [i \in 1..Len(result.args) |-> Operand(result.args[i])]

\* the axes of the operands, one operand after the other
RECURSIVE AxesInTurn(_)
AxesInTurn(references) ==
    IF references = <<>> THEN <<>> ELSE Head(references).axes \o AxesInTurn(Tail(references))

FirstSeen(references, axis) ==
    Min({ i \in 1..Len(AxesInTurn(references)) : AxesInTurn(references)[i] = axis })

Multiplied ==
    /\ result.op = "cross_product"
    /\ result.raised = "none"

\* C17: cross_product returns a Reference whose axes are the union of the
\* operands' axes in first-seen order, each with the size the operands give
\* it, and whose cell at every full index is ABSENT if the cell of some
\* operand at its own sub-index is ABSENT and is otherwise the list of the
\* operands' cells in operand order.
C17_CrossProductCells ==
    Multiplied =>
        LET R == result.returned
        IN /\ Range(R.axes) = UNION { Range(Operands[i].axes) : i \in 1..Len(Operands) }
           /\ \A i, j \in 1..Len(R.axes) :
                i < j => FirstSeen(Operands, R.axes[i]) < FirstSeen(Operands, R.axes[j])
           /\ Len(R.shape) = Len(R.axes)
           /\ \A i \in 1..Len(R.axes) : \A k \in 1..Len(Operands) :
                R.axes[i] \in Range(Operands[k].axes) =>
                    R.shape[i] = SizeOf(Operands[k], R.axes[i])
           /\ \A kwargs \in AllPositions(R.axes, R.shape) :
                LET cells == [k \in 1..Len(Operands) |->
                                CellAt(Operands[k], Restricted(kwargs, Operands[k].axes))]
                IN CellAt(R, kwargs) =
                      IF \E k \in 1..Len(cells) : cells[k] = skip_value
                      THEN skip_value
                      ELSE List(cells)

C17_Witness ==
    /\ Multiplied
    /\ result.args = <<"A", "B", "A">>
    /\ result.returned.axes = <<"x", "y", "w">>
    /\ \E kwargs \in AllPositions(result.returned.axes, result.returned.shape) :
            CellAt(result.returned, kwargs) = skip_value
    /\ \E kwargs \in AllPositions(result.returned.axes, result.returned.shape) :
            /\ isinstance_list(CellAt(result.returned, kwargs))
            /\ Len(CellAt(result.returned, kwargs).items) = 3

\* the operands of the last call in the opposite order
Swapped == <<Operands[2], Operands[1]>>

\* C18: cross_product([A, B]) and cross_product([B, A]) hold the same cells:
\* both return, over the same axes with the same sizes, and at every
\* assignment of positions to the axes the cell of one is ABSENT iff the
\* cell of the other is, and otherwise the two cells are the same pair in
\* swapped order.
C18_CrossProductCommutes ==
    (Multiplied /\ Len(result.args) = 2) =>
        LET R == result.returned
            other == cross_product(Swapped)
        IN /\ other.raised = "none"
           /\ Range(other.ref.axes) = Range(R.axes)
           /\ \A a \in Range(R.axes) : SizeOf(other.ref, a) = SizeOf(R, a)
           /\ \A kwargs \in AllPositions(R.axes, R.shape) :
                LET mine == CellAt(R, kwargs)
                    theirs == CellAt(other.ref, kwargs)
                IN /\ mine = skip_value <=> theirs = skip_value
                   /\ mine # skip_value =>
                        /\ isinstance_list(mine)
                        /\ Len(mine.items) = 2
                        /\ theirs = List(<<mine.items[2], mine.items[1]>>)

C18_Witness ==
    /\ Multiplied
    /\ result.args = <<"B", "A">>
    /\ result.returned.axes = <<"y", "x">>
    /\ cross_product(Swapped).ref.axes = <<"x", "y">>
    /\ CellAt(B, [a \in {"y"} |-> 0]) = skip_value
    /\ CellAt(result.returned, [a \in {"x", "y"} |-> IF a = "y" THEN 1 ELSE 0])
            = List(<<Scalar(32), Scalar(12)>>)

Acted ==
    /\ result.op = "cross_action"
    /\ result.raised = "none"

\* the axes of A, then the axes of B that are not axes of A
Combined == A.axes \o SelectSeq(B.axes, LAMBDA a : a \notin Range(A.axes))

\* every index over the combined axes of a Reference cross_action returned
CombinedPositions(ref) == AllPositions(Combined, SubSeq(ref.shape, 1, Len(Combined)))

\* what a Reference cross_action returned holds at an index over the
\* combined axes: the entries along the new axis
Along(ref, kwargs) == Descend(ref.data, [i \in 1..Len(Combined) |-> kwargs[Combined[i]]])

\* every entry along the new axis is ABSENT
AllAbsent(cell) ==
    \/ cell = skip_value
    \/ /\ isinstance_list(cell)
       /\ \A i \in 1..Len(cell.items) : cell.items[i] = skip_value

Works(func) == func.f \in {"double", "incdec"}

\* the list z -> [z, 2z] or z -> [z+1, z-1] returns for an int
ListReturned(func, z) ==
    IF func.f = "double"
    THEN List(<<z, Scalar(2 * z.n)>>)
    ELSE List(<<Scalar(z.n + 1), Scalar(z.n - 1)>>)

\* C19: cross_action(A, B, name) returns a Reference with the axes of A, then
\* the axes of B that A has not, then name; at every index over the combined
\* axes the cell is the list A's cell returns for B's cell when both are
\* present, and is ABSENT when A's cell or B's cell is ABSENT.
C19_CrossActionCells ==
    Acted =>
        LET R == result.returned
        IN /\ R.axes = Append(Combined, result.args[1])
           /\ \A kwargs \in CombinedPositions(R) :
                LET func == CellAt(A, Restricted(kwargs, A.axes))
                    input_val == CellAt(B, Restricted(kwargs, B.axes))
                IN /\ (func = skip_value \/ input_val = skip_value) =>
                        AllAbsent(Along(R, kwargs))
                   /\ (Works(func) /\ input_val.k = "int") =>
                        Along(R, kwargs) = ListReturned(func, input_val)

\* A with every function that raises replaced by one that returns
RECURSIVE Healed(_)
Healed(v) ==
    IF isinstance_list(v)
    THEN List([i \in 1..Len(v.items) |-> Healed(v.items[i])])
    ELSE IF v = Callable("raises") THEN Callable("double") ELSE v

SomeCallRaises ==
    \E kwargs \in AllPositions(Combined, [i \in 1..Len(Combined) |->
                                            SizeOf(IF Combined[i] \in Range(A.axes) THEN A ELSE B,
                                                   Combined[i])]) :
        /\ CellAt(A, Restricted(kwargs, A.axes)) = Callable("raises")
        /\ CellAt(B, Restricted(kwargs, B.axes)) # skip_value

\* C20: when a function in a cell of A raises during cross_action, the error
\* does not reach the caller, the cells computed from that call are ABSENT
\* and every other cell is what it is when the function returns instead.
C20_FailureStaysInItsCell ==
    (result.op = "cross_action" /\ result.raised # "ValueError" /\ SomeCallRaises) =>
        /\ result.raised = "none"
        /\ LET R == result.returned
               without == cross_action([A EXCEPT !.data = Healed(A.data)], B,
                                       result.args[1]).ref
           IN \A kwargs \in CombinedPositions(R) :
                IF CellAt(A, Restricted(kwargs, A.axes)) = Callable("raises")
                THEN AllAbsent(Along(R, kwargs))
                ELSE Along(R, kwargs) = Along(without, kwargs)

\* the extent of each combined axis in the operand that has it
CombinedShape ==
    [i \in 1..Len(Combined) |->
        SizeOf(IF Combined[i] \in Range(A.axes) THEN A ELSE B, Combined[i])]

\* a shared axis has one extent in A and another in B
ExtentMismatch ==
    \E a \in Range(A.axes) \cap Range(B.axes) : SizeOf(A, a) # SizeOf(B, a)

\* the indices over the combined axes where A's cell is present and is not
\* callable, and B's cell is present
NotCallableAt ==
    { kwargs \in AllPositions(Combined, CombinedShape) :
        /\ CellAt(A, Restricted(kwargs, A.axes)).k = "int"
        /\ CellAt(B, Restricted(kwargs, B.axes)) # skip_value }

\* C21: when a cell of A holds a value that is present but not callable,
\* cross_action does not raise, and the cells computed from it are ABSENT.
C21_NotCallableIsAbsent ==
    (result.op = "cross_action" /\ ~ExtentMismatch /\ NotCallableAt # {}) =>
        /\ result.raised = "none"
        /\ \A kwargs \in NotCallableAt : AllAbsent(Along(result.returned, kwargs))

\* the indices over the combined axes where A's cell is a function that
\* returns a value that is not a list, and B's cell is present
NotAListAt ==
    { kwargs \in AllPositions(Combined, CombinedShape) :
        /\ CellAt(A, Restricted(kwargs, A.axes)) = Callable("twice")
        /\ CellAt(B, Restricted(kwargs, B.axes)) # skip_value }

\* C22: cross_action raises when a function of A returns a value that is not
\* a list, and it raises only then or when a shared axis has two extents
\* (the operands here are always References).
C22_RaisesOnlyOnStructure ==
    (result.op = "cross_action") =>
        (result.raised # "none" <=> (ExtentMismatch \/ NotAListAt # {}))

\* the indices over the combined axes where the call returns a list
ListAt ==
    { kwargs \in AllPositions(Combined, CombinedShape) :
        /\ Works(CellAt(A, Restricted(kwargs, A.axes)))
        /\ CellAt(B, Restricted(kwargs, B.axes)).k = "int" }

\* the length of every list the functions return
ListLen == Len(ListReturned(Callable("double"), Scalar(0)).items)

\* C23: when at least one call returns a list and every list returned has
\* length L, the extent of the new trailing axis is L and every cell whose
\* call returned holds exactly the L values returned, whichever cells of A
\* or B are ABSENT.
C23_NewAxisExtent ==
    (Acted /\ ListAt # {}) =>
        LET R == result.returned
        IN /\ R.shape[Len(R.shape)] = ListLen
           /\ \A kwargs \in ListAt :
                /\ Len(Along(R, kwargs).items) = ListLen
                /\ Along(R, kwargs) =
                      ListReturned(CellAt(A, Restricted(kwargs, A.axes)),
                                   CellAt(B, Restricted(kwargs, B.axes)))

Applied ==
    /\ result.op = "element_action"
    /\ result.raised = "none"

\* C24: for element_action(f, [A, B]) over two References on the same axes
\* with equal shape and f the addition, the result has those axes and that
\* shape, and its cell at every index is the sum of A's cell and B's cell
\* when both are present and is ABSENT exactly when one of them is ABSENT.
C24_ElementActionCells ==
    (/\ result.op = "element_action"
     /\ result.args = <<"A", "B">>
     /\ result.value = [f |-> "add", index_awareness |-> FALSE]
     /\ A.axes = B.axes
     /\ A.shape = B.shape
     /\ \A kwargs \in AllPositions(A.axes, A.shape) : CellAt(A, kwargs).k \in {"int", "str"}) =>
        /\ result.raised = "none"
        /\ result.returned.axes = A.axes
        /\ result.returned.shape = A.shape
        /\ \A kwargs \in AllPositions(A.axes, A.shape) :
              LET a == CellAt(A, kwargs)
                  b == CellAt(B, kwargs)
              IN CellAt(result.returned, kwargs) =
                    IF a = skip_value \/ b = skip_value
                    THEN skip_value
                    ELSE Scalar(a.n + b.n)

C24_Witness ==
    /\ Applied
    /\ result.args = <<"A", "B">>
    /\ result.value = [f |-> "add", index_awareness |-> FALSE]
    /\ A.axes = <<"x", "y">>
    /\ B.axes = <<"x", "y">>
    /\ CellAt(A, [a \in {"x", "y"} |-> IF a = "x" THEN 1 ELSE 0]) = skip_value
    /\ NoAbsentCell(B)
    /\ CellAt(result.returned, [a \in {"x", "y"} |-> IF a = "x" THEN 1 ELSE 0]) = skip_value
    /\ CellAt(result.returned, [a \in {"x", "y"} |-> 1]) = Scalar(13 + 53)

Invoking == result.op \in {"element_action", "cross_action"}

\* the operands whose cells are the inputs of a call
Contributors == IF result.op = "cross_action" THEN <<A, B>> ELSE Operands

\* every contributing operand is present at this index
InputsPresent(kwargs) ==
    \A i \in 1..Len(Contributors) :
        CellAt(Contributors[i], Restricted(kwargs, Contributors[i].axes)) # skip_value

\* the indices of the result cells
ResultCells ==
    IF result.op = "cross_action"
    THEN CombinedPositions(result.returned)
    ELSE AllPositions(result.returned.axes, result.returned.shape)

\* C25: element_action and cross_action never invoke the function for a
\* cell one of whose inputs is ABSENT, and when they return the invocations
\* are exactly the result cells whose inputs are all present.
C25_NeverInvokedOnAbsent ==
    Invoking =>
        /\ \A kwargs \in result.calls : InputsPresent(kwargs)
        /\ result.raised = "none" =>
              result.calls = { kwargs \in ResultCells : InputsPresent(kwargs) }

C25_Witness ==
    /\ Acted
    /\ A.data.items[1] = skip_value
    /\ A.data.items[2] = Callable("raises")
    /\ B.axes = <<"y">>
    /\ B.data.items[1] = skip_value
    /\ result.calls = { [a \in {"x", "y"} |-> 1] }

C25_WitnessElementAction ==
    /\ Applied
    /\ result.args = <<"B", "A">>
    /\ Cardinality(result.calls) = 2
    /\ Cardinality(ResultCells) = 4

----------------------------------------------------------------------------
(* Properties of the memory store *)

\* C26: recollect, issued right after remember with the same name, a list
\* of concept names that holds the concept name and the same index, returns
\* the value remembered, whatever was remembered before.
C26_RecollectAfterRemember ==
    result.op = "remember" =>
        \A concept_name_list \in ConceptNameLists :
            result.args.concept_name \in concept_name_list =>
                recollect(memory, result.args.name, concept_name_list, result.args.index)
                    = result.value

\* what an entry was remembered with
ConceptOf(entry) == entry.key[1]
NameOf(entry) == entry.key[2]
IndexOfEntry(entry) == IF Len(entry.key) = 3 THEN Range(entry.key[3]) ELSE {}

\* the entries the query is to find
Answers ==
    { i \in 1..Len(memory) :
        /\ ConceptOf(memory[i]) \in result.args.concept_names
        /\ NameOf(memory[i]) = result.args.name
        /\ LET asked == { Token(k, result.args.index[k]) : k \in DOMAIN result.args.index }
           IN IndexOfEntry(memory[i]) \subseteq asked \/ asked \subseteq IndexOfEntry(memory[i]) }

\* C27: recollect returns the value of a stored entry whenever some entry
\* has a concept name of the query's list, the queried name and an index set
\* that is a subset or a superset of the query's, entries remembered with no
\* index included; it returns absent only when there is no such entry.
C27_RecollectFindsEveryMatch ==
    result.op = "recollect" =>
        /\ Answers # {} => \E i \in Answers : result.returned = memory[i].value
        /\ Answers = {} => result.returned = None

----------------------------------------------------------------------------
(* Properties of set beyond the size of a dimension *)

\* the nested list holds something at this path of positions
RECURSIVE ExistsAt(_, _)
ExistsAt(v, path) ==
    \/ path = <<>>
    \/ /\ isinstance_list(v)
       /\ Head(path) < Len(v.items)
       /\ ExistsAt(v.items[Head(path) + 1], Tail(path))

\* every full index of the axes with positions up to one past those written
NearIndices(ref) == [Range(ref.axes) -> 0..2]

\* C28: a set at a full index whose position lies beyond the current size of
\* a dimension returns, extends the data along the written path and stores
\* the value there; every cell that existed before keeps its value, axes
\* and declared shape are unchanged, and a get at every other position that
\* did not exist before returns ABSENT.
C28_SetBeyondExtends ==
    [][ (/\ result'.op = "set"
         /\ FullIndex(A, result'.args)
         /\ Len(A.axes) >= 1
         /\ result'.value \in {Scalar(1), skip_value}
         /\ ~ExistsAt(A.data, PathOf(A.axes, result'.args)))
        => (/\ result'.raised = "none"
            /\ A'.axes = A.axes
            /\ A'.shape = A.shape
            /\ ExistsAt(A'.data, PathOf(A.axes, result'.args))
            /\ CellAt(A', result'.args) = result'.value
            /\ \A kwargs \in NearIndices(A) :
                  kwargs # result'.args =>
                      IF ExistsAt(A.data, PathOf(A.axes, kwargs))
                      THEN /\ ExistsAt(A'.data, PathOf(A.axes, kwargs))
                           /\ CellAt(A', kwargs) = CellAt(A, kwargs)
                      ELSE get(A', kwargs) = [raised |-> "none", value |-> skip_value]) ]_vars

C28_Witness ==
    /\ result.op = "set"
    /\ result.raised = "none"
    /\ A.axes = <<"x", "y">>
    /\ result.args = [a \in {"x", "y"} |-> 1]
    /\ result.value = Scalar(1)
    /\ result.before = List(<<List(<<Scalar(1)>>)>>)
    /\ A.data = List(<<List(<<Scalar(1)>>), List(<<skip_value, Scalar(1)>>)>>)
    /\ A.shape = <<1, 1>>

----------------------------------------------------------------------------
(* Properties of the axes of the References produced *)

WellFormed(ref) ==
    /\ Len(ref.axes) = Len(ref.shape)
    /\ \A i, j \in 1..Len(ref.axes) : i # j => ref.axes[i] # ref.axes[j]

\* C29: every Reference constructed, and every Reference element_action or
\* cross_action returns, for every new_axis_name, has as many axes as
\* entries of its shape and pairwise distinct axis names.
C29_AxesWellFormed ==
    /\ WellFormed(A)
    /\ WellFormed(B)
    /\ (Invoking /\ result.raised = "none") => WellFormed(result.returned)

----------------------------------------------------------------------------
(* Properties of a failed ordering *)

\* C30: when order_inference raises (duplicate producer, unresolvable
\* dependency or cyclic dependency) the plan's inference_order,
\* inference_registry and concept_registry are what they were before the
\* call, so an order cached earlier stays in use.
C30_FailedOrderingChangesNothing ==
    [][ (last'.op = "order_inference" /\ last'.raised # "none")
        => (/\ inference_order' = inference_order
            /\ inference_registry' = inference_registry
            /\ concept_registry' = concept_registry
            /\ referenced' = referenced) ]_vars

C30_Witness ==
    /\ last.op = "order_inference"
    /\ last.raised # "none"
    /\ Len(inference_order) >= 1
    /\ Len(inference_order) < NumInferences

============================================================================
